---- MODULE Spec2Model ----
(***************************************************************************)
(* Model of pyiptmnet/api.py: the endpoint functions (one HTTP round trip  *)
(* each, response mapped to a Python value or an exception) and the batch  *)
(* helper __get_data (chunking of the input list, one call per chunk,      *)
(* merge of the chunk results).                                            *)
(***************************************************************************)
EXTENDS Integers, Sequences, FiniteSets, TLC

(***************************************************************************)
(* Bounds and program constants                                            *)
(***************************************************************************)
\* api.py:515, 520, 521 -- the literal 1000 (size test, range step, slice width)
ChunkSize == 1000

\* largest number of chunks an input of the model is split into
MaxChunks == 3

Min(a, b) == IF a <= b THEN a ELSE b

\* input lengths: the small-input edge cases and, for each chunk count, an
\* exact multiple of the chunk size and a multiple plus one
Lens ==
  {0, 1, ChunkSize - 1}
    \cup {n \in {k * ChunkSize + r : k \in 1..MaxChunks, r \in {0, 1}} :
            n <= MaxChunks * ChunkSize}

(***************************************************************************)
(* Python values.  Every value is a record [tag, s, body]: tag is the      *)
(* Python type, s the text of a scalar, body the elements of a container.  *)
(***************************************************************************)
V(tag, s, body) == [tag |-> tag, s |-> s, body |-> body]

None == V("NoneType", "", <<>>)
Str(s) == V("str", s, <<>>)
Num(s) == V("int", s, <<>>)
\* the built-in function object bound to the name `id` when no parameter
\* or local of that name is in scope
BuiltinId == V("builtin_function", "id", <<>>)
List(xs) == V("list", "", xs)
Entry(k, v) == V("entry", "", <<k, v>>)
\* a Python dict: its entries in insertion order, keys pairwise distinct
Dict(es) == V("dict", "", es)
\* a pandas DataFrame: s is the header line, body the data rows
DataFrame(header, rows) == V("DataFrame", header, rows)

EKey(e) == e.body[1]
EVal(e) == e.body[2]
Keys(d) == {EKey(d.body[k]) : k \in 1..Len(d.body)}
HasKey(d, key) == key \in Keys(d)
Lookup(d, key) ==
  EVal(d.body[CHOOSE k \in 1..Len(d.body) : EKey(d.body[k]) = key])

(***************************************************************************)
(* Exceptions and call outcomes                                            *)
(***************************************************************************)
Err(type, code) == [type |-> type, code |-> code]
NoError == Err("", 0)
Return(v) == [kind |-> "return", val |-> v, err |-> NoError]
Raise(e) == [kind |-> "raise", val |-> None, err |-> e]

(***************************************************************************)
(* bool(x), as evaluated by `if chunk_result:` (api.py:523).  A pandas     *)
(* DataFrame has no truth value: DataFrame.__bool__ raises ValueError      *)
(* whatever its size.                                                      *)
(***************************************************************************)
Truth(v) ==
  CASE v.tag = "NoneType" -> "false"
    [] v.tag = "str" -> IF v.s = "" THEN "false" ELSE "true"
    [] v.tag = "int" -> IF v.s = "0" THEN "false" ELSE "true"
    [] v.tag \in {"list", "dict"} -> IF v.body = <<>> THEN "false" ELSE "true"
    [] v.tag = "DataFrame" -> "raise"
    [] OTHER -> "true"

\* the dict argument: None, False or True
DictArgs == {"None", "False", "True"}
\* `dict is True` (api.py:93, 384, 395, 530 ...)
IsTrue(d) == d = "True"
\* `if dict` (api.py:527)
DictTruthy(d) == d = "True"

(***************************************************************************)
(* HTTP responses.  A response is [status, text]; the server, not the      *)
(* client, chooses both.  Bodies are varied for status 200 only: no        *)
(* endpoint function reads the body of any other response.                 *)
(***************************************************************************)
T_Empty == ""
T_EmptyList == "[]"
T_EmptyObject == "{}"
T_List1 == "[{\"e\":\"K1\"}]"
T_List2 == "[{\"e\":\"K2\"},{\"e\":\"K3\"}]"
T_Object == "{\"x\":\"1\"}"
T_Csv1 == "e\nK1\n"
T_Csv0 == "e\n"

Texts ==
  {T_Empty, T_EmptyList, T_EmptyObject, T_List1, T_List2, T_Object, T_Csv1, T_Csv0}

\* 200 OK, 204 No Content, 304 Not Modified, 404 Not Found, 500 Server Error
Statuses == {200, 204, 304, 404, 500}

Resp(status, text) == [status |-> status, text |-> text]
Responses ==
  {Resp(200, t) : t \in Texts} \cup {Resp(st, T_Empty) : st \in Statuses \ {200}}
\* placeholder in the call log for a callable that makes no HTTP request
NoResp == Resp(0, "-")

Rec1(k, v) == Dict(<<Entry(Str(k), Str(v))>>)

\* json.loads(text): the parsed value, or JSONDecodeError for text that is
\* not JSON
json_loads(text) ==
  CASE text = T_EmptyList -> Return(List(<<>>))
    [] text = T_EmptyObject -> Return(Dict(<<>>))
    [] text = T_List1 -> Return(List(<<Rec1("e", "K1")>>))
    [] text = T_List2 -> Return(List(<<Rec1("e", "K2"), Rec1("e", "K3")>>))
    [] text = T_Object -> Return(Rec1("x", "1"))
    [] OTHER -> Raise(Err("JSONDecodeError", 0))

\* _to_dataframe_from_json(text) = pd.read_csv(StringIO(text), sep=","):
\* first line is the header, every further line a row; text with no line at
\* all raises EmptyDataError
_to_dataframe_from_json(text) ==
  CASE text = T_Empty -> Raise(Err("EmptyDataError", 0))
    [] text = T_Csv1 -> Return(DataFrame("e", <<Str("K1")>>))
    [] text = T_Csv0 -> Return(DataFrame("e", <<>>))
    [] OTHER -> Return(DataFrame(text, <<>>))

\* Response.raise_for_status(): HTTPError carrying the status for 4xx and
\* 5xx, returns normally otherwise; the endpoint function then falls off
\* its end and returns None
raise_for_status(resp) ==
  IF 400 <= resp.status /\ resp.status < 600
    THEN Raise(Err("HTTPError", resp.status))
    ELSE Return(None)

Sentinel(key, msg) == Dict(<<Entry(key, Str(msg))>>)

\* the common body of the endpoint functions: `if result.status_code == 200`,
\* the empty-body test, the parse chosen by `dict is True`, else
\* raise_for_status()
Respond(resp, empties, key, msg, parsed) ==
  IF resp.status = 200
    THEN IF resp.text \in empties THEN Return(Sentinel(key, msg)) ELSE parsed
    ELSE raise_for_status(resp)

ParseByMode(d, text) ==
  IF IsTrue(d) THEN json_loads(text) ELSE _to_dataframe_from_json(text)

\* search has no parameter named id: the key is the built-in function
search(id, d, resp) ==
  Respond(resp, {""}, BuiltinId, "No data found for the given ID.",
          ParseByMode(d, resp.text))

get_info(id, d, resp) ==
  Respond(resp, {""}, Str(id), "No info found for the given ID.",
          json_loads(resp.text))

get_msa(id, d, resp) ==
  Respond(resp, {""}, Str(id), "No msa found for the given ID.",
          json_loads(resp.text))

get_substrates(id, d, resp) ==
  Respond(resp, {""}, Str(id), "No substrate found for the given ID.",
          ParseByMode(d, resp.text))

get_proteoforms(id, d, resp) ==
  Respond(resp, {"", "[]"}, Str(id), "No proteoforms found for the given ID.",
          ParseByMode(d, resp.text))

get_ptm_dependent_ppi(id, d, resp) ==
  Respond(resp, {"", "[]"}, Str(id), "No ptmppi found for the given ID.",
          ParseByMode(d, resp.text))

get_ppi_for_proteoforms(id, d, resp) ==
  Respond(resp, {"", "[]"}, Str(id), "No proteoformsppi found for the given ID.",
          ParseByMode(d, resp.text))

\* mutant of get_ptm_enzymes_from_list: only the empty text tested, as in
\* search and get_substrates
get_ptm_enzymes_no_marker(items, d, resp) ==
  Respond(resp, {""}, BuiltinId, "No ptm enzymes found for the given ID.",
          ParseByMode(d, resp.text))

\* the two list endpoints take (items, dict): no parameter named id either
get_ptm_enzymes_from_list(items, d, resp) ==
  Respond(resp, {"", "[]"}, BuiltinId, "No ptm enzymes found for the given ID.",
          ParseByMode(d, resp.text))

get_ptm_ppi_from_list(items, d, resp) ==
  Respond(resp, {"", "[]"}, BuiltinId, "No ptmppi found for the given ID.",
          ParseByMode(d, resp.text))

SingleFuncs ==
  {"search", "get_info", "get_msa", "get_substrates", "get_proteoforms",
   "get_ptm_dependent_ppi", "get_ppi_for_proteoforms"}
ListFuncs == {"get_ptm_enzymes_from_list", "get_ptm_ppi_from_list"}

CallSingle(f, id, d, resp) ==
  CASE f = "search" -> search(id, d, resp)
    [] f = "get_info" -> get_info(id, d, resp)
    [] f = "get_msa" -> get_msa(id, d, resp)
    [] f = "get_substrates" -> get_substrates(id, d, resp)
    [] f = "get_proteoforms" -> get_proteoforms(id, d, resp)
    [] f = "get_ptm_dependent_ppi" -> get_ptm_dependent_ppi(id, d, resp)
    [] f = "get_ppi_for_proteoforms" -> get_ppi_for_proteoforms(id, d, resp)

CallList(f, items, d, resp) ==
  CASE f = "get_ptm_enzymes_from_list" -> get_ptm_enzymes_from_list(items, d, resp)
    [] f = "get_ptm_ppi_from_list" -> get_ptm_ppi_from_list(items, d, resp)

(***************************************************************************)
(* A callable other than the two list endpoints handed to __get_data: it   *)
(* makes no request and may return any value or raise.                     *)
(***************************************************************************)
S_ListA == List(<<Str("a")>>)
S_ListBC == List(<<Str("b"), Str("c")>>)
S_DictX1 == Dict(<<Entry(Str("x"), Num("1"))>>)
S_DictX2Y3 == Dict(<<Entry(Str("x"), Num("2")), Entry(Str("y"), Num("3"))>>)
S_Frame1 == DataFrame("e", <<Str("K1")>>)
S_Frame0 == DataFrame("e", <<>>)

StubOutcomes ==
  {Return(v) : v \in {None, S_ListA, S_ListBC, S_DictX1, S_DictX2Y3,
                      Str("raw"), S_Frame1, S_Frame0}}
    \cup {Raise(Err("TransportError", 0))}

BatchFuncs == ListFuncs \cup {"stub"}
Funcs == SingleFuncs \cup BatchFuncs
Ids == {"Q15796", "P27361"}

\* one call get_data_func(chunk, dict=dict): the response received (if the
\* callable makes a request) and the call's outcome
Invocations(f, chunk, d) ==
  IF f = "stub"
    THEN {[resp |-> NoResp, out |-> o] : o \in StubOutcomes}
    ELSE {[resp |-> r, out |-> CallList(f, chunk, d, r)] : r \in Responses}

(***************************************************************************)
(* __get_data (api.py:494-555)                                             *)
(***************************************************************************)
\* mutant of NoBatching: the size test written with <
NoBatchingStrict(s) == Len(s) < ChunkSize

\* `len(sites) <= 1000`
NoBatching(s) == Len(s) <= ChunkSize

\* `sites[i : i + 1000]`, i counted from 0
Slice(s, i) == SubSeq(s, i + 1, Min(i + ChunkSize, Len(s)))

\* mutant of Flatten: every chunk result appended whole, lists included
FlattenNoSplice(flattened, chunks) == flattened \o chunks

\* the loop of api.py:532-540 over all_chunks, flattened being the list
\* built so far
RECURSIVE Flatten(_, _)
Flatten(flattened, chunks) ==
  IF chunks = <<>> THEN flattened
  ELSE LET chunk == Head(chunks)
       IN Flatten(IF chunk.tag = "list"
                    THEN flattened \o chunk.body
                    ELSE Append(flattened, chunk),
                  Tail(chunks))

\* mutant of SetItem: an existing key keeps its old value
SetItemKeepFirst(es, e) ==
  IF \E k \in 1..Len(es) : EKey(es[k]) = EKey(e) THEN es ELSE Append(es, e)

\* merged[key] = value: an existing key keeps its place and takes the new
\* value, a new key is added at the end
SetItem(es, e) ==
  IF \E k \in 1..Len(es) : EKey(es[k]) = EKey(e)
    THEN [k \in 1..Len(es) |-> IF EKey(es[k]) = EKey(e) THEN e ELSE es[k]]
    ELSE Append(es, e)

RECURSIVE SetItems(_, _)
SetItems(es, new) ==
  IF new = <<>> THEN es ELSE SetItems(SetItem(es, Head(new)), Tail(new))

\* merged.update(chunk): key-wise for a dict; a DataFrame is read through
\* keys() as column -> column values; a list or str is read as a sequence
\* of pairs, and an element that is no pair raises ValueError; anything
\* else is not iterable (TypeError)
dict_update(es, chunk) ==
  CASE chunk.tag = "dict" -> Return(Dict(SetItems(es, chunk.body)))
    [] chunk.tag = "DataFrame" ->
         Return(Dict(SetItem(es, Entry(Str(chunk.s), List(chunk.body)))))
    [] chunk.tag \in {"list", "str"} -> Raise(Err("ValueError", 0))
    [] OTHER -> Raise(Err("TypeError", 0))

\* the loop of api.py:549-552
RECURSIVE MergeDicts(_, _)
MergeDicts(merged, chunks) ==
  IF chunks = <<>> THEN Return(Dict(merged))
  ELSE LET u == dict_update(merged, Head(chunks))
       IN IF u.kind = "raise" THEN u ELSE MergeDicts(u.val.body, Tail(chunks))

RECURSIVE ConcatRows(_)
ConcatRows(frames) ==
  IF frames = <<>> THEN <<>> ELSE Head(frames).body \o ConcatRows(Tail(frames))

\* pd.concat(all_chunks, ignore_index=True): the rows of the frames in
\* order; TypeError when an element is not a DataFrame
pd_concat(frames) ==
  IF \A k \in 1..Len(frames) : frames[k].tag = "DataFrame"
    THEN Return(DataFrame(frames[1].s, ConcatRows(frames)))
    ELSE Raise(Err("TypeError", 0))

\* mutant of ChunkStep: a failed chunk call is skipped like an empty one
ChunkStepSkipFailed(out) ==
  IF out.kind = "raise" THEN Return(List(<<>>))
  ELSE CASE Truth(out.val) = "raise" -> Raise(Err("ValueError", 0))
         [] Truth(out.val) = "true" -> Return(List(<<out.val>>))
         [] OTHER -> Return(List(<<>>))

\* api.py:522-524, the body of the loop after the call returned or raised:
\* an exception of the call is not caught; `if chunk_result:` evaluates the
\* truth value (which may itself raise); Return(List(xs)) carries the
\* elements appended to all_chunks
ChunkStep(out) ==
  IF out.kind = "raise" THEN out
  ELSE CASE Truth(out.val) = "raise" -> Raise(Err("ValueError", 0))
         [] Truth(out.val) = "true" -> Return(List(<<out.val>>))
         [] OTHER -> Return(List(<<>>))

\* api.py:526-555, the statements after the loop
MergeResult(chunks, d) ==
  IF chunks = <<>>
    THEN Return(IF DictTruthy(d) THEN List(<<>>) ELSE DataFrame("", <<>>))
  ELSE IF IsTrue(d) THEN Return(List(Flatten(<<>>, chunks)))
  ELSE IF chunks[1].tag = "DataFrame" THEN pd_concat(chunks)
  ELSE IF chunks[1].tag = "dict" THEN MergeDicts(<<>>, chunks)
  ELSE Return(List(chunks))

(***************************************************************************)
(* State                                                                   *)
(***************************************************************************)
VARIABLES
  func,        \* the function called: an endpoint function, or the
               \* get_data_func handed to __get_data
  sites,       \* __get_data's input list
  id,          \* the identifier handed to a single-identifier endpoint
  dictArg,     \* the dict argument
  pc,          \* "start", "loop" (in the for loop), "returned", "raised"
  i,           \* the loop variable of api.py:520
  all_chunks,  \* api.py:519
  calls,       \* log: the (chunk, dict) of every get_data_func call, in order
  rets,        \* log: the response and outcome of every call made, in order
  result,      \* the value returned to the caller
  error        \* the exception that reached the caller

vars ==
  <<func, sites, id, dictArg, pc, i, all_chunks, calls, rets, result, error>>

Init ==
  /\ func \in Funcs
  /\ dictArg \in DictArgs
  /\ IF func \in SingleFuncs
       THEN sites = <<>> /\ id \in Ids
       ELSE id = "" /\ \E n \in Lens : sites = [k \in 1..n |-> k]
  /\ pc = "start"
  /\ i = 0
  /\ all_chunks = <<>>
  /\ calls = <<>>
  /\ rets = <<>>
  /\ result = None
  /\ error = NoError

\* the caller receives the outcome o
Finish(o) ==
  IF o.kind = "raise"
    THEN pc' = "raised" /\ error' = o.err /\ UNCHANGED result
    ELSE pc' = "returned" /\ result' = o.val /\ UNCHANGED error

\* a call of one of the single-identifier endpoint functions
EndpointCall ==
  /\ pc = "start"
  /\ func \in SingleFuncs
  /\ \E r \in Responses :
       /\ rets' = Append(rets, [resp |-> r, out |-> CallSingle(func, id, dictArg, r)])
       /\ Finish(CallSingle(func, id, dictArg, r))
  /\ UNCHANGED <<func, sites, id, dictArg, i, all_chunks, calls>>

\* api.py:515-516: no batching needed
PassThrough ==
  /\ pc = "start"
  /\ func \in BatchFuncs
  /\ NoBatching(sites)
  /\ \E inv \in Invocations(func, sites, dictArg) :
       /\ calls' = Append(calls, [chunk |-> sites, dict |-> dictArg])
       /\ rets' = Append(rets, inv)
       /\ Finish(inv.out)
  /\ UNCHANGED <<func, sites, id, dictArg, i, all_chunks>>

\* api.py:519-520: entry into the loop
BeginBatch ==
  /\ pc = "start"
  /\ func \in BatchFuncs
  /\ ~NoBatching(sites)
  /\ pc' = "loop"
  /\ i' = 0
  /\ all_chunks' = <<>>
  /\ UNCHANGED <<func, sites, id, dictArg, calls, rets, result, error>>

\* api.py:520-524: one iteration of the loop
BatchIter ==
  /\ pc = "loop"
  /\ i < Len(sites)
  /\ \E inv \in Invocations(func, Slice(sites, i), dictArg) :
       /\ calls' = Append(calls, [chunk |-> Slice(sites, i), dict |-> dictArg])
       /\ rets' = Append(rets, inv)
       /\ IF ChunkStep(inv.out).kind = "raise"
            THEN Finish(ChunkStep(inv.out)) /\ UNCHANGED <<i, all_chunks>>
            ELSE /\ all_chunks' = all_chunks \o ChunkStep(inv.out).val.body
                 /\ i' = i + ChunkSize
                 /\ UNCHANGED <<pc, result, error>>
  /\ UNCHANGED <<func, sites, id, dictArg>>

\* api.py:526-555: the loop is exhausted
Merge ==
  /\ pc = "loop"
  /\ i >= Len(sites)
  /\ Finish(MergeResult(all_chunks, dictArg))
  /\ UNCHANGED <<func, sites, id, dictArg, i, all_chunks, calls, rets>>

Next == EndpointCall \/ PassThrough \/ BeginBatch \/ BatchIter \/ Merge

Spec == Init /\ [][Next]_vars

(***************************************************************************)
(* Properties                                                              *)
(***************************************************************************)
Terminal == pc \in {"returned", "raised"}
\* a call of __get_data
IsBatch == func \in BatchFuncs
Small == IsBatch /\ Len(sites) <= ChunkSize
Large == IsBatch /\ Len(sites) > ChunkSize
AllReturned == \A k \in 1..Len(rets) : rets[k].out.kind = "return"
RetVal(k) == rets[k].out.val

RECURSIVE ConcatChunks(_)
ConcatChunks(cs) ==
  IF cs = <<>> THEN <<>> ELSE Head(cs).chunk \o ConcatChunks(Tail(cs))

\* C1 -- pass-through for small inputs: for an input of at most 1000 items
\* (the empty list included) and every dict argument, __get_data calls
\* get_data_func exactly once, with the whole list and the same dict
\* argument, and the caller receives exactly that call's outcome.
C1_PassThrough ==
  Small =>
    IF Terminal
      THEN /\ calls = <<[chunk |-> sites, dict |-> dictArg]>>
           /\ Len(rets) = 1
           /\ IF rets[1].out.kind = "return"
                THEN pc = "returned" /\ result = RetVal(1) /\ error = NoError
                ELSE pc = "raised" /\ error = rets[1].out.err /\ result = None
      ELSE calls = <<>> /\ rets = <<>> /\ pc = "start"

\* a list of exactly 1000 items passed through, the result a value that
\* the batch path would not hand back (None is dropped, a DataFrame raises)
C1_Witness ==
  /\ Small /\ Len(sites) = ChunkSize /\ pc = "returned"
  /\ result.tag \in {"NoneType", "DataFrame"}

\* C2 -- partition completeness: for an input of more than 1000 items, when
\* every call of get_data_func returns normally, the chunks passed are
\* contiguous slices, all of 1000 items but the last, which has n mod 1000
\* (1000 when that is 0), none empty, and their concatenation in call order
\* is the input.
C2_PartitionComplete ==
  (Large /\ Terminal /\ AllReturned) =>
    /\ ConcatChunks(calls) = sites
    /\ \A k \in 1..Len(calls) :
         /\ calls[k].chunk # <<>>
         /\ k < Len(calls) => Len(calls[k].chunk) = ChunkSize
         /\ k = Len(calls) =>
              Len(calls[k].chunk) =
                (IF Len(sites) % ChunkSize = 0 THEN ChunkSize
                                               ELSE Len(sites) % ChunkSize)

\* C3 -- table merge: for an input of more than 1000 items with dict
\* false/absent, when every chunk call returns a Table, __get_data returns
\* one Table whose rows are the chunk Tables' rows in chunk order, then row
\* order.
C3_TableMerge ==
  (/\ Large /\ ~IsTrue(dictArg) /\ Terminal /\ AllReturned
   /\ \A k \in 1..Len(rets) : RetVal(k).tag = "DataFrame") =>
    /\ pc = "returned"
    /\ result.tag = "DataFrame"
    /\ result.body = ConcatRows([k \in 1..Len(rets) |-> RetVal(k)])

\* the chunk results kept for the merge, read off the call log: those
\* with a true truth value
Kept(k) == Truth(RetVal(k)) = "true"
KeptIdx == {k \in 1..Len(rets) : Kept(k)}

\* what one chunk result contributes to the flat sequence
Contribution(v) == IF v.tag = "list" THEN v.body ELSE <<v>>
RECURSIVE FlatOfLog(_)
FlatOfLog(k) ==
  IF k = 0 THEN <<>>
  ELSE FlatOfLog(k - 1) \o (IF Kept(k) THEN Contribution(RetVal(k)) ELSE <<>>)

\* C4 -- list merge: for an input of more than 1000 items with dict true,
\* __get_data returns one flat list built from the kept chunk results in
\* chunk order: a list contributes its elements in order (one level), any
\* other kept result contributes itself as one element.
C4_ListMerge ==
  /\ (Large /\ IsTrue(dictArg) /\ pc = "returned") =>
       result = List(FlatOfLog(Len(rets)))
  /\ (/\ Large /\ IsTrue(dictArg) /\ Terminal /\ AllReturned
      /\ \A k \in 1..Len(rets) : Truth(RetVal(k)) # "raise") =>
       pc = "returned"

\* chunk results [a], [b,c] and a mapping: elements spliced, the mapping
\* appended whole
C4_Witness ==
  /\ Large /\ IsTrue(dictArg) /\ pc = "returned" /\ Len(rets) = 3
  /\ RetVal(1) = S_ListA /\ RetVal(2) = S_ListBC /\ RetVal(3) = S_DictX1
  /\ result = List(<<Str("a"), Str("b"), Str("c"), S_DictX1>>)

\* C5 -- mapping merge, last write wins: for an input of more than 1000
\* items with dict false/absent, when the kept chunk results are all
\* mappings (and there is one), __get_data returns one mapping whose key set
\* is the union of theirs and in which each key has the value of the last
\* chunk that contains it.
C5_MappingMerge ==
  (/\ Large /\ ~IsTrue(dictArg) /\ Terminal /\ AllReturned /\ KeptIdx # {}
   /\ \A k \in 1..Len(rets) : Truth(RetVal(k)) # "raise"
   /\ \A k \in KeptIdx : RetVal(k).tag = "dict") =>
    /\ pc = "returned"
    /\ result.tag = "dict"
    /\ Keys(result) = UNION {Keys(RetVal(k)) : k \in KeptIdx}
    /\ Len(result.body) = Cardinality(Keys(result))
    /\ \A key \in Keys(result) :
         LET last == CHOOSE k \in KeptIdx :
                       /\ HasKey(RetVal(k), key)
                       /\ \A j \in KeptIdx : HasKey(RetVal(j), key) => j <= k
         IN Lookup(result, key) = Lookup(RetVal(last), key)

\* {x:1} then {x:2, y:3}: x collides and takes the later value
C5_Witness ==
  /\ Large /\ ~IsTrue(dictArg) /\ pc = "returned" /\ Len(rets) = 2
  /\ RetVal(1) = S_DictX1 /\ RetVal(2) = S_DictX2Y3
  /\ Lookup(result, Str("x")) = Num("2")

\* the k-th chunk of the input, counted from 1
ChunkNo(k) ==
  SubSeq(sites, (k - 1) * ChunkSize + 1, Min(k * ChunkSize, Len(sites)))

\* C6 -- fail-fast, all-or-nothing: for an input of more than 1000 items,
\* get_data_func is called strictly in chunk order, one call at a time; if
\* the call for chunk k raises, that error reaches the caller unchanged, no
\* later chunk is ever called and no result is returned.
C6_FailFast ==
  Large =>
    /\ Len(calls) = Len(rets)
    /\ \A k \in 1..Len(calls) :
         calls[k] = [chunk |-> ChunkNo(k), dict |-> dictArg]
    /\ \A k \in 1..Len(rets) :
         rets[k].out.kind = "raise" =>
           /\ k = Len(rets)
           /\ pc = "raised"
           /\ error = rets[k].out.err
           /\ result = None

\* chunk 2 of 3 raised: two calls made, the error at the caller
C6_Witness ==
  /\ Large /\ Len(sites) > 2 * ChunkSize /\ Len(rets) = 2
  /\ rets[2].out.kind = "raise" /\ pc = "raised"
  /\ error = rets[2].out.err

\* an empty result: a false truth value, or a Table with no rows
EmptyValue(v) ==
  Truth(v) = "false" \/ (v.tag = "DataFrame" /\ v.body = <<>>)

\* C7 -- all-empty batch: for an input of more than 1000 items, if every
\* chunk call yields a falsy/empty result, __get_data returns an empty
\* Table when dict is false/absent and an empty list when it is true, and
\* never raises.
C7_AllEmpty ==
  (/\ Large /\ Terminal /\ AllReturned
   /\ \A k \in 1..Len(rets) : EmptyValue(RetVal(k))) =>
    /\ pc = "returned"
    /\ IF IsTrue(dictArg)
         THEN result = List(<<>>)
         ELSE result.tag = "DataFrame" /\ result.body = <<>>

\* the message each endpoint documents for an empty result
DocMessage(f) ==
  CASE f = "search" -> "No data found for the given ID."
    [] f = "get_info" -> "No info found for the given ID."
    [] f = "get_msa" -> "No msa found for the given ID."
    [] f = "get_substrates" -> "No substrate found for the given ID."
    [] f = "get_proteoforms" -> "No proteoforms found for the given ID."
    [] f = "get_ptm_dependent_ppi" -> "No ptmppi found for the given ID."
    [] f = "get_ppi_for_proteoforms" -> "No proteoformsppi found for the given ID."
    [] f = "get_ptm_enzymes_from_list" -> "No ptm enzymes found for the given ID."
    [] f = "get_ptm_ppi_from_list" -> "No ptmppi found for the given ID."
    [] OTHER -> ""

\* the calls that made an HTTP request
Requests == {k \in 1..Len(rets) : rets[k].resp # NoResp}
Success(st) == 200 <= st /\ st <= 299

\* C8 -- non-success status is an error: an endpoint function that receives
\* a response whose status is not 2xx fails with an error carrying the
\* status code and returns no value; a batch whose chunk receives such a
\* response aborts instead of dropping the chunk.
C8_NonSuccessRaises ==
  \A k \in Requests :
    ~Success(rets[k].resp.status) =>
      /\ rets[k].out = Raise(Err("HTTPError", rets[k].resp.status))
      /\ k = Len(rets)
      /\ pc = "raised"
      /\ error = Err("HTTPError", rets[k].resp.status)

\* C9 -- empty-result sentinel: an endpoint function that receives a
\* successful response with an empty body returns, without raising, a
\* mapping with exactly one entry, keyed by the requested identifier (for
\* the single-identifier endpoints) and holding the endpoint's message; the
\* value is no Table.
C9_EmptyBodySentinel ==
  \A k \in Requests :
    (Success(rets[k].resp.status) /\ rets[k].resp.text = "") =>
      /\ rets[k].out.kind = "return"
      /\ RetVal(k).tag = "dict"
      /\ Len(RetVal(k).body) = 1
      /\ EVal(RetVal(k).body[1]) = Str(DocMessage(func))
      /\ func \in SingleFuncs => EKey(RetVal(k).body[1]) = Str(id)

IsListBatch == func \in ListFuncs /\ Len(sites) > ChunkSize

RECURSIVE KeptOfLog(_)
KeptOfLog(k) ==
  IF k = 0 THEN <<>>
  ELSE KeptOfLog(k - 1) \o (IF Kept(k) THEN <<RetVal(k)>> ELSE <<>>)

\* C11 -- never crash on merge: for an input of more than 1000 items with
\* dict false/absent, once all chunk calls have returned normally,
\* __get_data never raises, whatever the shapes of the chunk results; when
\* the kept results match neither the Table case nor the mapping case
\* (decided by the first kept result) it returns the kept chunk results as
\* a raw list, unmerged and in chunk order.
C11_NeverCrashOnMerge ==
  (Large /\ ~IsTrue(dictArg) /\ Terminal /\ AllReturned) =>
    /\ pc = "returned"
    /\ (/\ KeptIdx # {}
        /\ KeptOfLog(Len(rets))[1].tag \notin {"DataFrame", "dict"}) =>
         result = List(KeptOfLog(Len(rets)))

====
